---- MODULE Spec2Model ----
(***************************************************************************)
(* A model of example-2/wip.py: the VehicleRegistry, the VehicleModelInfo  *)
(* tax property and the random id / licence plate generation.              *)
(*                                                                         *)
(* Python strings that the code indexes, slices or joins (vehicle_id,      *)
(* license_plate) are sequences of one-character strings; brand and model  *)
(* names are only hashed and compared, and stay TLA+ strings.  A Python    *)
(* float is a pair (mant, exp) standing for mant * 2^exp, with mant the    *)
(* 53-bit significand.                                                     *)
(***************************************************************************)
EXTENDS Integers, Sequences, FiniteSets, TLC

VARIABLES
    registry,   \* the VehicleRegistry object: its vehicle_models dict and online flag
    call,       \* the last call made: operation, arguments, value returned or exception raised
    before,     \* history: the registry as it was when the last call was entered
    added       \* history: for each (brand, model) key, the argument of the latest add made under it

vars == <<registry, call, before, added>>

----------------------------------------------------------------------------
(* Bounds of the model *)

\* seeds of the random generator: 0..MaxSeed
MaxSeed == 2
\* catalogue prices the tax is computed for: 0..MaxTaxPrice, and those of main()
MaxTaxPrice == 120

Brands == {"Tesla", "BMW"}
Models == {"Model 3", "520e"}
Prices == {50000, 60000}
MainPrices == {50000, 35000, 60000, 55000}
Seeds == 0..MaxSeed

----------------------------------------------------------------------------
(* Values *)

None == [type |-> "NoneType"]

ELECTRIC == [type |-> "FuelType", name |-> "ELECTRIC"]
PETROL == [type |-> "FuelType", name |-> "PETROL"]
FuelType == {ELECTRIC, PETROL}

ONLINE == [type |-> "RegistryStatus", name |-> "ONLINE"]
CONNECTION_ERROR == [type |-> "RegistryStatus", name |-> "CONNECTION_ERROR"]
OFFLINE == [type |-> "RegistryStatus", name |-> "OFFLINE"]
RegistryStatus == {ONLINE, CONNECTION_ERROR, OFFLINE}

\* string.ascii_uppercase and string.digits
ascii_uppercase ==
    << "A", "B", "C", "D", "E", "F", "G", "H", "I", "J", "K", "L", "M",
       "N", "O", "P", "Q", "R", "S", "T", "U", "V", "W", "X", "Y", "Z" >>
digits == << "0", "1", "2", "3", "4", "5", "6", "7", "8", "9" >>

\* datetime.now().year, evaluated once when the class body is executed
ImportYear == 2024

\* no keyword arguments given to a constructor
NoKeywords == <<>>

VehicleInfoMissingError(brand, model) ==
    [type |-> "VehicleInfoMissingError", brand |-> brand, model |-> model,
     message |-> "Vehicle information is missing."]

KeyError(key) == [type |-> "KeyError", key |-> key]

\* VehicleModelInfo(brand, model, catalogue_price, **kw): kw gives the fields
\* that have defaults, when the caller passes them
VehicleModelInfo(brand, model, catalogue_price, kw) ==
    [type |-> "VehicleModelInfo", brand |-> brand, model |-> model,
     catalogue_price |-> catalogue_price,
     fuel_type |-> IF "fuel_type" \in DOMAIN kw THEN kw.fuel_type ELSE ELECTRIC,
     production_year |-> IF "production_year" \in DOMAIN kw THEN kw.production_year
                         ELSE ImportYear]

Vehicle(vehicle_id, license_plate, info) ==
    [type |-> "Vehicle", vehicle_id |-> vehicle_id, license_plate |-> license_plate,
     info |-> info]

\* bool(v) of a value the registry handles: None is false, and a dataclass
\* instance, which defines neither __bool__ nor __len__, is true
Truthy(v) == v # None

\* the outcome of a method call: the object afterwards, and the value returned
\* or the exception raised
Return(self, v) == [self |-> self, ret |-> v, raised |-> None]
Raise(self, e) == [self |-> self, ret |-> None, raised |-> e]

----------------------------------------------------------------------------
(* Natural numbers of any size, as sequences of limbs in base Base, least  *)
(* significant first, without leading zero limbs; 0 is the empty sequence. *)

\* bits of a limb: the arithmetic below keeps every product under 2^31
LimbBits == 14
Base == 2^LimbBits

RECURSIVE Limbs(_)
\* the limbs of a machine-sized natural number
Limbs(n) == IF n = 0 THEN <<>> ELSE <<n % Base>> \o Limbs(n \div Base)

RECURSIVE Trim(_)
\* without its leading (most significant) zero limbs
Trim(a) ==
    IF a # <<>> /\ a[Len(a)] = 0 THEN Trim(SubSeq(a, 1, Len(a) - 1)) ELSE a

RECURSIVE AddNat(_, _, _)
\* a + b + carry
AddNat(a, b, carry) ==
    IF a = <<>> /\ b = <<>>
    THEN Limbs(carry)
    ELSE LET x == IF a = <<>> THEN 0 ELSE Head(a)
             y == IF b = <<>> THEN 0 ELSE Head(b)
             t == x + y + carry
         IN  <<t % Base>> \o AddNat(IF a = <<>> THEN a ELSE Tail(a),
                                    IF b = <<>> THEN b ELSE Tail(b), t \div Base)

RECURSIVE SubOne(_)
\* a - 1, of a > 0
SubOne(a) ==
    IF Head(a) > 0
    THEN Trim(<<Head(a) - 1>> \o Tail(a))
    ELSE <<Base - 1>> \o SubOne(Tail(a))

RECURSIVE ScaleNat(_, _, _)
\* a * k + carry, of 0 <= k <= Base
ScaleNat(a, k, carry) ==
    IF a = <<>>
    THEN Limbs(carry)
    ELSE LET t == Head(a) * k + carry
         IN  <<t % Base>> \o ScaleNat(Tail(a), k, t \div Base)

RECURSIVE MulNat(_, _)
\* a * b
MulNat(a, b) ==
    IF a = <<>> \/ b = <<>>
    THEN <<>>
    ELSE AddNat(ScaleNat(b, Head(a), 0), Trim(<<0>> \o MulNat(Tail(a), b)), 0)

RECURSIVE DivNat(_, _)
\* quotient (on as many limbs as a) and remainder of a by 0 < den < 2^17
DivNat(a, den) ==
    IF a = <<>>
    THEN [q |-> <<>>, r |-> 0]
    ELSE LET hi == DivNat(Tail(a), den)
             t == hi.r * Base + Head(a)
         IN  [q |-> <<t \div den>> \o hi.q, r |-> t % den]

\* the number of bits of a: the least n with a < 2^n
BitLength(a) ==
    IF a = <<>>
    THEN 0
    ELSE (Len(a) - 1) * LimbBits
         + CHOOSE n \in 1..LimbBits : 2^(n - 1) <= a[Len(a)] /\ a[Len(a)] < 2^n

IsOdd(a) == a # <<>> /\ Head(a) % 2 = 1

\* a * 2^n
ShiftLeft(a, n) ==
    IF a = <<>>
    THEN <<>>
    ELSE Trim([i \in 1..(n \div LimbBits) |-> 0] \o ScaleNat(a, 2^(n % LimbBits), 0))

\* a \div 2^n, and whether a bit that is set was shifted out
ShiftRight(a, n) ==
    LET limbs == IF n \div LimbBits < Len(a) THEN n \div LimbBits ELSE Len(a)
        d == DivNat(SubSeq(a, limbs + 1, Len(a)), 2^(n % LimbBits))
    IN  [q |-> Trim(d.q),
         inexact |-> d.r # 0 \/ \E i \in 1..limbs : a[i] # 0]

----------------------------------------------------------------------------
(* Python floats: IEEE 754 binary64, round to nearest, ties to even.  Only  *)
(* finite values >= 0 far from the subnormal and overflow ranges occur.  A  *)
(* float is mant * 2^exp with 2^52 <= mant < 2^53, or 0 * 2^0.             *)

\* bits of the significand
Precision == 53

FloatZero == [type |-> "float", mant |-> <<>>, exp |-> 0]

\* (n + a fraction in [0, 1), non-zero iff sticky) * 2^exp rounded to a
\* float: to the nearest, a tie to the even significand
RoundToFloat(n, exp, sticky) ==
    LET len == BitLength(n)
        drop == len - Precision
    IN  IF n = <<>> THEN FloatZero
        ELSE IF drop <= 0
        THEN [type |-> "float", mant |-> ShiftLeft(n, 0 - drop), exp |-> exp + drop]
        ELSE LET guarded == ShiftRight(n, drop - 1)
                 half == IsOdd(guarded.q)
                 more == sticky \/ guarded.inexact
                 kept == ShiftRight(guarded.q, 1).q
                 up == half /\ (more \/ IsOdd(kept))
                 m == IF up THEN AddNat(kept, <<>>, 1) ELSE kept
             IN  IF BitLength(m) > Precision
                 THEN [type |-> "float", mant |-> ShiftRight(m, 1).q, exp |-> exp + drop + 1]
                 ELSE [type |-> "float", mant |-> m, exp |-> exp + drop]

\* float(n) of an int 0 <= n
FloatOfInt(n) == RoundToFloat(Limbs(n), 0, FALSE)

\* num / den of ints 0 <= num, 0 < den: the correctly rounded quotient.  It
\* is also the value of the decimal literal with digits num and scale den
\* (0.02 is 2 / 100), which the parser rounds correctly.
TrueDivide(num, den) ==
    LET shift == Precision + 2 + BitLength(Limbs(den))
        d == DivNat(ShiftLeft(Limbs(num), shift), den)
    IN  RoundToFloat(Trim(d.q), 0 - shift, d.r # 0)

\* x * y of floats
FloatMultiply(x, y) == RoundToFloat(MulNat(x.mant, y.mant), x.exp + y.exp, FALSE)

\* the float after x > 0
NextUp(x) == RoundToFloat(AddNat(x.mant, <<>>, 1), x.exp, FALSE)

\* the float before x > 0: below a power of two the spacing halves
NextDown(x) ==
    IF x.mant = ShiftLeft(Limbs(1), Precision - 1)
    THEN [type |-> "float", mant |-> SubOne(ShiftLeft(Limbs(1), Precision)), exp |-> x.exp - 1]
    ELSE [type |-> "float", mant |-> SubOne(x.mant), exp |-> x.exp]

taxes_swapped ==
    [f \in FuelType |-> IF f = ELECTRIC THEN TrueDivide(5, 100) ELSE TrueDivide(2, 100)]

\* taxes = {FuelType.ELECTRIC: 0.02, FuelType.PETROL: 0.05}
taxes ==
    [f \in FuelType |-> IF f = ELECTRIC THEN TrueDivide(2, 100) ELSE TrueDivide(5, 100)]

\* VehicleModelInfo.tax
tax(self) ==
    LET tax_percentage == taxes[self.fuel_type]
    IN  Return(self, FloatMultiply(tax_percentage, FloatOfInt(self.catalogue_price)))

----------------------------------------------------------------------------
(* The random generator *)

\* The generator's output is not determined by the program: each seed stands
\* for one of the streams of draws it may produce.  Draw is the n-th draw of
\* the stream, as a natural number; a draw selects
\* population[draw % len(population)].
Draw(seed, n) == (seed + 1) * n * n + 3 * seed * n + 7 * seed

\* the generator seeded with seed, before its first draw
Rnd(seed) == [seed |-> seed, pos |-> 0]

\* the generator after k more draws
Advance(rnd, k) == [rnd EXCEPT !.pos = @ + k]

\* random.choices(population, k=k): k draws with replacement
choices(population, k, rnd) ==
    [i \in 1..k |-> population[(Draw(rnd.seed, rnd.pos + i) % Len(population)) + 1]]

----------------------------------------------------------------------------
(* VehicleRegistry *)

\* VehicleRegistry.__init__
NewVehicleRegistry == [vehicle_models |-> <<>>, online |-> TRUE]

\* dict[key] = value
SetItem(d, key, value) ==
    [k \in DOMAIN d \cup {key} |-> IF k = key THEN value ELSE d[k]]

add_vehicle_model_info_setdefault(self, model_info) ==
    LET key == <<model_info.brand, model_info.model>>
    IN  Return([self EXCEPT !.vehicle_models =
                    IF key \in DOMAIN @ THEN @ ELSE SetItem(@, key, model_info)], None)

add_vehicle_model_info_rebind(self, model_info) ==
    LET key == <<model_info.brand, model_info.model>>
    IN  Return([self EXCEPT !.vehicle_models = SetItem(<<>>, key, model_info)], None)

add_vehicle_model_info_by_brand(self, model_info) ==
    LET key == <<model_info.brand, model_info.model>>
        same == {k \in DOMAIN self.vehicle_models : k[1] = model_info.brand}
    IN  Return([self EXCEPT !.vehicle_models =
                    [k \in DOMAIN @ \cup {key} |->
                        IF k \in same \cup {key} THEN model_info ELSE @[k]]], None)

add_vehicle_model_info(self, model_info) ==
    Return([self EXCEPT !.vehicle_models =
                SetItem(@, <<model_info.brand, model_info.model>>, model_info)], None)

generate_vehicle_id(length, rnd) == choices(ascii_uppercase, length, rnd)

\* _id[:2]
Prefix(s, n) == SubSeq(s, 1, IF Len(s) < n THEN Len(s) ELSE n)

generate_vehicle_license_three(_id, rnd) ==
    LET digit_part == choices(digits, 2, rnd)
        letter_part == choices(ascii_uppercase, 2, Advance(rnd, 2))
    IN  Prefix(_id, 3) \o <<"-">> \o digit_part \o <<"-">> \o letter_part

generate_vehicle_license(_id, rnd) ==
    LET digit_part == choices(digits, 2, rnd)
        letter_part == choices(ascii_uppercase, 2, Advance(rnd, 2))
    IN  Prefix(_id, 2) \o <<"-">> \o digit_part \o <<"-">> \o letter_part

find_model_info_subscript(self, brand, model) ==
    IF <<brand, model>> \in DOMAIN self.vehicle_models
    THEN Return(self, self.vehicle_models[<<brand, model>>])
    ELSE Raise(self, KeyError(<<brand, model>>))

find_model_info_setdefault(self, brand, model) ==
    IF <<brand, model>> \in DOMAIN self.vehicle_models
    THEN Return(self, self.vehicle_models[<<brand, model>>])
    ELSE Return([self EXCEPT !.vehicle_models = SetItem(@, <<brand, model>>, None)], None)

\* dict.get(key): the value, or None for a missing key
find_model_info(self, brand, model) ==
    IF <<brand, model>> \in DOMAIN self.vehicle_models
    THEN Return(self, self.vehicle_models[<<brand, model>>])
    ELSE Return(self, None)

register_vehicle_swapped(self, brand, model, rnd) ==
    LET found == find_model_info(self, brand, model)
    IN  IF found.raised # None THEN found
        ELSE IF ~Truthy(found.ret)
        THEN Raise(found.self, VehicleInfoMissingError(model, brand))
        ELSE LET vehicle_id == generate_vehicle_id(12, rnd)
                 license_plate == generate_vehicle_license(vehicle_id, Advance(rnd, 12))
             IN  Return(found.self, Vehicle(vehicle_id, license_plate, found.ret))

register_vehicle_any_model(self, brand, model, rnd) ==
    LET same == {k \in DOMAIN self.vehicle_models : k[1] = brand}
        found == IF <<brand, model>> \in same
                 THEN Return(self, self.vehicle_models[CHOOSE k \in same : TRUE])
                 ELSE Return(self, None)
    IN  IF ~Truthy(found.ret)
        THEN Raise(found.self, VehicleInfoMissingError(brand, model))
        ELSE LET vehicle_id == generate_vehicle_id(12, rnd)
                 license_plate == generate_vehicle_license(vehicle_id, Advance(rnd, 12))
             IN  Return(found.self, Vehicle(vehicle_id, license_plate, found.ret))

register_vehicle(self, brand, model, rnd) ==
    LET found == find_model_info(self, brand, model)
    IN  IF found.raised # None THEN found
        ELSE IF ~Truthy(found.ret)
        THEN Raise(found.self, VehicleInfoMissingError(brand, model))
        ELSE LET vehicle_id == generate_vehicle_id(12, rnd)
                 license_plate == generate_vehicle_license(vehicle_id, Advance(rnd, 12))
             IN  Return(found.self, Vehicle(vehicle_id, license_plate, found.ret))

online_status_empty_first(self) ==
    IF Cardinality(DOMAIN self.vehicle_models) = 0
    THEN Return(self, CONNECTION_ERROR)
    ELSE Return(self, IF ~self.online THEN OFFLINE ELSE ONLINE)

online_status(self) ==
    IF ~self.online
    THEN Return(self, OFFLINE)
    ELSE Return(self, IF Cardinality(DOMAIN self.vehicle_models) = 0
                      THEN CONNECTION_ERROR
                      ELSE ONLINE)

----------------------------------------------------------------------------
(* The registry under its callers *)

\* the VehicleModelInfo objects callers construct
Keywords == {NoKeywords} \cup {[fuel_type |-> f] : f \in FuelType}

Infos ==
    { VehicleModelInfo(b, m, p, kw) :
        b \in Brands, m \in Models, p \in Prices, kw \in Keywords }

Called(op, args, out) ==
    /\ registry' = out.self
    /\ call' = [op |-> op, args |-> args, ret |-> out.ret, raised |-> out.raised]
    /\ before' = registry

\* registry = VehicleRegistry()
Init ==
    /\ registry = NewVehicleRegistry
    /\ call = [op |-> "__init__", args |-> <<>>, ret |-> None, raised |-> None]
    /\ before = NewVehicleRegistry
    /\ added = <<>>

CallAddVehicleModelInfo ==
    \E info \in Infos :
        /\ Called("add_vehicle_model_info", <<info>>, add_vehicle_model_info(registry, info))
        /\ added' = SetItem(added, <<info.brand, info.model>>, info)

CallFindModelInfo ==
    \E brand \in Brands, model \in Models :
        /\ Called("find_model_info", <<brand, model>>, find_model_info(registry, brand, model))
        /\ UNCHANGED added

CallRegisterVehicle ==
    \E brand \in Brands, model \in Models, seed \in Seeds :
        /\ Called("register_vehicle", <<brand, model>>,
                  register_vehicle(registry, brand, model, Rnd(seed)))
        /\ UNCHANGED added

CallOnlineStatus ==
    /\ Called("online_status", <<>>, online_status(registry))
    /\ UNCHANGED added

\* registry.online = value, by a caller: online is a public attribute that no
\* method of the class assigns after __init__
AssignOnline ==
    \E value \in BOOLEAN :
        /\ registry' = [registry EXCEPT !.online = value]
        /\ call' = [op |-> "online=", args |-> <<value>>, ret |-> None, raised |-> None]
        /\ before' = registry
        /\ UNCHANGED added

Next ==
    \/ CallAddVehicleModelInfo
    \/ CallFindModelInfo
    \/ CallRegisterVehicle
    \/ CallOnlineStatus

\* the registry used through its methods only
Spec == Init /\ [][Next]_vars

NextClient == Next \/ AssignOnline

\* the registry used through its methods and its public online attribute
SpecClient == Init /\ [][NextClient]_vars

----------------------------------------------------------------------------
(* The tax of a VehicleModelInfo, for the prices 0..MaxTaxPrice and those of *)
(* main(), with each fuel type and with the fuel type left out              *)

TaxPrices == 0..MaxTaxPrice \cup MainPrices

InitTax ==
    /\ registry = NewVehicleRegistry
    /\ before = NewVehicleRegistry
    /\ added = <<>>
    /\ \E price \in TaxPrices, kw \in Keywords :
          call = [op |-> "VehicleModelInfo", args |-> <<"BMW", "520e", price, kw>>,
                  ret |-> VehicleModelInfo("BMW", "520e", price, kw), raised |-> None]

\* info.tax, of the object just constructed
ReadTax ==
    /\ call.op = "VehicleModelInfo"
    /\ LET out == tax(call.ret)
       IN  call' = [op |-> "tax", args |-> <<call.ret>>, ret |-> out.ret,
                    raised |-> out.raised]
    /\ UNCHANGED <<registry, before, added>>

SpecTax == InitTax /\ [][ReadTax]_vars

----------------------------------------------------------------------------
(* Properties *)

Keys == Brands \X Models
Stored == DOMAIN registry.vehicle_models
Uppercase == {ascii_uppercase[i] : i \in DOMAIN ascii_uppercase}
Digits == {digits[i] : i \in DOMAIN digits}

\* C1: for every (brand, model) pair that has been added, find_model_info
\* returns the VehicleModelInfo most recently added under that pair, however
\* many other pairs were added before or after it.
C1_FindReturnsLastAdded ==
    /\ \A k \in DOMAIN added :
          find_model_info(registry, k[1], k[2]) = Return(registry, added[k])
    /\ call.op = "find_model_info" /\ call.args \in DOMAIN added
          => call.raised = None /\ call.ret = added[call.args]

\* an add has just replaced a different info stored under its key, three
\* pairs are stored, and find_model_info gives the newer info
C1_Witness ==
    /\ call.op = "add_vehicle_model_info"
    /\ LET info == call.args[1]
           key == <<info.brand, info.model>>
       IN  /\ key \in DOMAIN before.vehicle_models
           /\ before.vehicle_models[key] # info
           /\ find_model_info(registry, key[1], key[2]).ret = info
    /\ Cardinality(Stored) >= 3

\* C2: in every reachable registry state, register_vehicle for a pair that
\* is not a key of the mapping fails with VehicleInfoMissingError carrying
\* exactly the brand and model passed in, and returns no Vehicle.
C2_UnknownPairRaises ==
    /\ \A k \in Keys \ Stored, seed \in Seeds :
          LET out == register_vehicle(registry, k[1], k[2], Rnd(seed))
          IN  /\ out.raised = VehicleInfoMissingError(k[1], k[2])
              /\ out.ret = None
    /\ call.op = "register_vehicle" /\ call.args \notin DOMAIN before.vehicle_models
          => /\ call.raised = VehicleInfoMissingError(call.args[1], call.args[2])
             /\ call.ret = None

\* a registration has just failed on a registry that holds other pairs
C2_Witness ==
    /\ call.op = "register_vehicle"
    /\ call.args \notin Stored
    /\ call.raised = VehicleInfoMissingError(call.args[1], call.args[2])
    /\ Cardinality(Stored) >= 2

\* C3: in every reachable registry state, register_vehicle for a pair that
\* is a key of the mapping raises nothing and returns a Vehicle whose info is
\* the VehicleModelInfo stored under the pair, the value find_model_info
\* returns in that state.
C3_KnownPairRegisters ==
    /\ \A k \in Stored, seed \in Seeds :
          LET out == register_vehicle(registry, k[1], k[2], Rnd(seed))
          IN  /\ out.raised = None
              /\ out.ret.type = "Vehicle"
              /\ out.ret.info = registry.vehicle_models[k]
              /\ out.ret.info = find_model_info(registry, k[1], k[2]).ret
    /\ call.op = "register_vehicle" /\ call.args \in DOMAIN before.vehicle_models
          => /\ call.raised = None
             /\ call.ret.type = "Vehicle"
             /\ call.ret.info = before.vehicle_models[call.args]

\* a registration has just succeeded for one of two models of a brand that
\* are stored with different infos
C3_Witness ==
    /\ call.op = "register_vehicle"
    /\ call.raised = None
    /\ call.ret.type = "Vehicle"
    /\ call.ret.info = registry.vehicle_models[call.args]
    /\ \E k \in Stored :
          /\ k[1] = call.args[1]
          /\ k # call.args
          /\ registry.vehicle_models[k].catalogue_price # call.ret.info.catalogue_price

\* C4: online_status returns OFFLINE whenever the online flag is false,
\* whatever the mapping holds; CONNECTION_ERROR when the flag is true and the
\* mapping is empty; ONLINE when the flag is true and the mapping is not
\* empty.  The three cases cover every state and exclude one another.
C4_OnlineStatus ==
    /\ LET out == online_status(registry)
       IN  /\ out.raised = None
           /\ (out.ret = OFFLINE) <=> ~registry.online
           /\ (out.ret = CONNECTION_ERROR) <=> (registry.online /\ Stored = {})
           /\ (out.ret = ONLINE) <=> (registry.online /\ Stored # {})
           /\ Cardinality({out.ret} \cap RegistryStatus) = 1
    /\ Cardinality(RegistryStatus) = 3
    /\ call.op = "online_status"
          => call.raised = None /\ call.ret = online_status(before).ret

\* online_status has just returned OFFLINE on a registry that holds models
C4_Witness ==
    /\ call.op = "online_status"
    /\ call.ret = OFFLINE
    /\ ~registry.online
    /\ Stored # {}

\* C5: the vehicle_id of every Vehicle register_vehicle returns is 12
\* characters of A-Z, and its license_plate is 8 characters: the first two of
\* that vehicle_id, '-', two decimal digits, '-', two characters of A-Z.
C5_IdAndPlateFormat ==
    call.op = "register_vehicle" /\ call.raised = None
        => LET id == call.ret.vehicle_id
               plate == call.ret.license_plate
           IN  /\ Len(id) = 12
               /\ \A i \in 1..12 : id[i] \in Uppercase
               /\ Len(plate) = 8
               /\ plate[1] = id[1] /\ plate[2] = id[2]
               /\ plate[3] = "-" /\ plate[6] = "-"
               /\ plate[4] \in Digits /\ plate[5] \in Digits
               /\ plate[7] \in Uppercase /\ plate[8] \in Uppercase

\* a Vehicle has just been returned whose id starts with two different
\* letters, neither of them the third
C5_Witness ==
    /\ call.op = "register_vehicle"
    /\ call.raised = None
    /\ call.ret.vehicle_id[1] # call.ret.vehicle_id[2]
    /\ call.ret.vehicle_id[3] \notin {call.ret.vehicle_id[1], call.ret.vehicle_id[2]}
    /\ call.ret.license_plate[4] # call.ret.license_plate[5]

PercentOf(fuel_type) == IF fuel_type = ELECTRIC THEN 2 ELSE 5

C7_AddFrame ==
    [][ call'.op = "add_vehicle_model_info"
            => LET info == call'.args[1]
                   key == <<info.brand, info.model>>
                   old == registry.vehicle_models
                   new == registry'.vehicle_models
               IN  /\ DOMAIN new = DOMAIN old \cup {key}
                   /\ new[key] = info
                   /\ \A k \in DOMAIN old \ {key} : new[k] = old[k]
                   /\ registry'.online = registry.online
                   /\ key \in DOMAIN old
                         => Cardinality(DOMAIN new) = Cardinality(DOMAIN old) ]_vars

\* an add has just replaced the info under its key, on an offline registry
\* that holds another model of the same brand
C7_Witness ==
    /\ call.op = "add_vehicle_model_info"
    /\ LET info == call.args[1]
           key == <<info.brand, info.model>>
       IN  /\ key \in DOMAIN before.vehicle_models
           /\ before.vehicle_models[key] # info
           /\ \E k \in DOMAIN before.vehicle_models :
                 /\ k # key /\ k[1] = key[1]
                 /\ before.vehicle_models[k] # info
                 /\ registry.vehicle_models[k] = before.vehicle_models[k]
    /\ ~registry.online

\* C8: find_model_info never raises; it returns None for a pair that is not
\* a key of the mapping, a fresh registry included, and only for such a pair.
C8_FindNeverFails ==
    /\ \A k \in Keys :
          LET out == find_model_info(registry, k[1], k[2])
          IN  /\ out.raised = None
              /\ (out.ret = None) <=> (k \notin Stored)
    /\ call.op = "find_model_info"
          => /\ call.raised = None
             /\ (call.ret = None) <=> (call.args \notin DOMAIN before.vehicle_models)

\* find_model_info has just returned None on a registry nothing was added to
C8_Witness ==
    /\ call.op = "find_model_info"
    /\ call.raised = None
    /\ call.ret = None
    /\ Stored = {}
    /\ DOMAIN added = {}

\* C9: find_model_info, online_status and register_vehicle, whether it
\* returns a Vehicle or raises, leave the mapping and the online flag as they
\* were.
C9_ReadsChangeNothing ==
    [][ call'.op \in {"find_model_info", "online_status", "register_vehicle"}
            => registry' = registry ]_vars

\* a registration has just failed on an offline registry that holds models,
\* and the registry is as it was before the call
C9_Witness ==
    /\ call.op = "register_vehicle"
    /\ call.raised # None
    /\ registry = before
    /\ Stored # {}
    /\ ~registry.online

\* C10: from a new registry and under the registry's operations, the online
\* flag stays true and the mapping never loses a key; online_status never
\* returns OFFLINE, returns CONNECTION_ERROR exactly as long as nothing has
\* been added, and ONLINE in every state from the first add on.
C10_StatusOverTime ==
    /\ [](/\ registry.online
          /\ online_status(registry).ret # OFFLINE
          /\ (online_status(registry).ret = CONNECTION_ERROR) <=> (DOMAIN added = {})
          /\ (online_status(registry).ret = ONLINE) <=> (DOMAIN added # {})
          /\ call.op = "online_status" => call.ret = online_status(registry).ret)
    /\ [][ /\ DOMAIN registry.vehicle_models \subseteq DOMAIN registry'.vehicle_models
           /\ DOMAIN added \subseteq DOMAIN added'
           /\ online_status(registry).ret = ONLINE
                 => online_status(registry').ret = ONLINE ]_vars

\* online_status has just returned ONLINE after adds under three pairs
C10_Witness ==
    /\ call.op = "online_status"
    /\ call.ret = ONLINE
    /\ Cardinality(DOMAIN added) >= 3

====
